---- MODULE Spec2Model ----
(***************************************************************************)
(* Model of crates/rpc/src/pathfinder/methods/get_transaction_status.rs:   *)
(* the three-stage status resolver (pending block, database, gateway).     *)
(*                                                                         *)
(* The backing state (pending data, storage, sequencer gateway) is drawn   *)
(* in Init and is only read.  Every call is an async task whose position   *)
(* is pc[c]; the closure handed to spawn_blocking runs as a separate       *)
(* blocking task whose position is task[c].                                *)
(***************************************************************************)
EXTENDS Integers, Sequences, FiniteSets, TLC

\* ---------------------------------------------------------------- bounds
NumTx == 2        \* transaction hashes 1..NumTx
NumBlocks == 1    \* blocks 1..NumBlocks stored in the database

Tx == 1..NumTx
Blocks == 1..NumBlocks
\* one call of get_transaction_status: calls share no mutable state, each has
\* its own locals; concurrent calls are PairCalls below
Calls == {1}
\* the hash the gateway holds a record of; it reports NotReceived for others
GwKnown == {1}
NoTx == 0
NoBlock == 0

\* ------------------------------------------------------------ data types
\* starknet_gateway_types::reply::Status, as matched on in From
GatewayStatus ==
    { "Status::NotReceived", "Status::Received", "Status::Pending",
      "Status::Rejected", "Status::AcceptedOnL1", "Status::AcceptedOnL2",
      "Status::Reverted", "Status::Aborted" }

\* enum TransactionStatus
TransactionStatus ==
    { "NotReceived", "Received", "Pending", "Rejected",
      "AcceptedOnL1", "AcceptedOnL2", "Reverted", "Aborted" }

\* From with one arm pointing at a neighbouring variant
From_aborted_as_reverted(value) ==
    CASE value = "Status::NotReceived" -> "NotReceived"
      [] value = "Status::Received" -> "Received"
      [] value = "Status::Pending" -> "Pending"
      [] value = "Status::Rejected" -> "Rejected"
      [] value = "Status::AcceptedOnL1" -> "AcceptedOnL1"
      [] value = "Status::AcceptedOnL2" -> "AcceptedOnL2"
      [] value = "Status::Reverted" -> "Reverted"
      [] value = "Status::Aborted" -> "Reverted"

\* impl From<starknet_gateway_types::reply::Status> for TransactionStatus
From(value) ==
    CASE value = "Status::NotReceived" -> "NotReceived"
      [] value = "Status::Received" -> "Received"
      [] value = "Status::Pending" -> "Pending"
      [] value = "Status::Rejected" -> "Rejected"
      [] value = "Status::AcceptedOnL1" -> "AcceptedOnL1"
      [] value = "Status::AcceptedOnL2" -> "AcceptedOnL2"
      [] value = "Status::Reverted" -> "Reverted"
      [] value = "Status::Aborted" -> "Aborted"

\* the .context(..) strings attached to errors
CtxConnection == "Opening database connection"
CtxTransaction == "Creating database transaction"
CtxBlockHash == "Fetching transaction block hash from database"
CtxBlockStatus == "Quering block's status"
CtxJoin == "Joining database task"
CtxGateway == "Fetching transaction from gateway"

\* Result<TransactionStatus, GetGatewayTransactionError>
NoOutcome == [kind |-> "none", status |-> "", ctx |-> ""]
Ok(status) == [kind |-> "ok", status |-> status, ctx |-> ""]
Internal(ctx) == [kind |-> "err", status |-> "", ctx |-> ctx]

\* anyhow::Result<Option<bool>> produced by the spawn_blocking closure
NoDbResult == [kind |-> "none", found |-> FALSE, l1 |-> FALSE, ctx |-> ""]
DbOk(found, l1) == [kind |-> "ok", found |-> found, l1 |-> l1, ctx |-> ""]
DbErr(ctx) == [kind |-> "err", found |-> FALSE, l1 |-> FALSE, ctx |-> ctx]

\* one collaborator call, as recorded in trace[c]: the operation, the hash or
\* block it was given, whether it is in flight, answered or failed, and the
\* answer
Ev(op, arg, state, val) == [op |-> op, arg |-> arg, state |-> state, val |-> val]

\* the last entry of a trace gets its answer
Answered(tr, state, val) ==
    [tr EXCEPT ![Len(tr)] = [@ EXCEPT !.state = state, !.val = val]]

VARIABLES
    pending_data,   \* context.pending_data and the snapshot block() yields
    txBlock,        \* storage: hash -> block containing it (NoBlock: none)
    l1Accepted,     \* storage: the blocks that are L1 accepted
    gateway,        \* sequencer: the status recorded for each known hash
    pc,             \* position of each call's future
    input,          \* input.transaction_hash of each call
    task,           \* position of each call's spawn_blocking closure
    db,             \* the closure holds an open database connection
    db_tx,          \* the closure holds an open database transaction
    block_hash,     \* the closure's local block_hash
    db_status,      \* the closure's result
    outcome,        \* what the call returned
    trace           \* the collaborator calls each call has made, in order

env == <<pending_data, txBlock, l1Accepted, gateway>>
vars == <<pending_data, txBlock, l1Accepted, gateway, pc, input, task, db,
          db_tx, block_hash, db_status, outcome, trace>>

\* ---------------------------------------------------------- collaborators
\* Option<PendingData> with the Option<block> that PendingData::block yields
PendingDataStates ==
    { [configured |-> FALSE, available |-> FALSE, transactions |-> {}],
      [configured |-> TRUE, available |-> FALSE, transactions |-> {}] }
    \cup { [configured |-> TRUE, available |-> TRUE, transactions |-> s] :
              s \in SUBSET Tx }

\* is_pending_tx that never finds the hash
is_pending_tx_never(pending, tx_hash) == FALSE

\* is_pending_tx ending in unwrap_or(true)
is_pending_tx_default_true(pending, tx_hash) ==
    IF pending.available THEN tx_hash \in pending.transactions ELSE TRUE

\* is_pending_tx: block().await.map(|b| any(hash == tx_hash)).unwrap_or_default()
is_pending_tx(pending, tx_hash) ==
    IF pending.available THEN tx_hash \in pending.transactions ELSE FALSE

\* db_tx.transaction_block_hash(hash), when the query succeeds
transaction_block_hash(tx_hash) == txBlock[tx_hash]

\* db_tx.block_is_l1_accepted(block), when the query succeeds
block_is_l1_accepted(block) == block \in l1Accepted

\* the status the gateway reports for a hash; it reports the hashes it has
\* no record of as NotReceived
GatewayStatusOf(tx_hash) ==
    IF tx_hash \in DOMAIN gateway THEN gateway[tx_hash]
    ELSE "Status::NotReceived"

Init ==
    /\ pending_data \in PendingDataStates
    /\ txBlock \in [Tx -> Blocks \cup {NoBlock}]
    /\ l1Accepted \in SUBSET Blocks
    /\ gateway \in [GwKnown -> GatewayStatus]
    /\ pc = [c \in Calls |-> "idle"]
    /\ input = [c \in Calls |-> NoTx]
    /\ task = [c \in Calls |-> "none"]
    /\ db = [c \in Calls |-> FALSE]
    /\ db_tx = [c \in Calls |-> FALSE]
    /\ block_hash = [c \in Calls |-> NoBlock]
    /\ db_status = [c \in Calls |-> NoDbResult]
    /\ outcome = [c \in Calls |-> NoOutcome]
    /\ trace = [c \in Calls |-> <<>>]

\* ------------------------------------------------- the async call's steps
\* tokio::task::spawn_blocking(move || ..) followed by .await
SpawnDb(c) ==
    /\ pc' = [pc EXCEPT ![c] = "await_db"]
    /\ task' = [task EXCEPT ![c] = "open_conn"]

\* get_transaction_status is called: the pending check starts, or, with no
\* pending data configured, the database task is spawned right away
Call(c, tx_hash) ==
    /\ pc[c] = "idle"
    /\ input' = [input EXCEPT ![c] = tx_hash]
    /\ IF pending_data.configured
       THEN /\ pc' = [pc EXCEPT ![c] = "await_pending"]
            /\ trace' = [trace EXCEPT ![c] = Append(@, Ev("pending.block", tx_hash, "inflight", ""))]
            /\ UNCHANGED task
       ELSE /\ SpawnDb(c)
            /\ UNCHANGED trace
    /\ UNCHANGED <<env, db, db_tx, block_hash, db_status, outcome>>

\* PendingChecked without the return: Pending is produced and the call goes on
PendingChecked_no_return(c) ==
    /\ pc[c] = "await_pending"
    /\ trace' = [trace EXCEPT ![c] =
                   Answered(@, "ok", IF pending_data.available THEN "Some" ELSE "None")]
    /\ IF is_pending_tx(pending_data, input[c])
       THEN outcome' = [outcome EXCEPT ![c] = Ok("Pending")]
       ELSE UNCHANGED outcome
    /\ SpawnDb(c)
    /\ UNCHANGED <<env, input, db, db_tx, block_hash, db_status>>

\* is_pending_tx(..).await completes
PendingChecked(c) ==
    /\ pc[c] = "await_pending"
    /\ trace' = [trace EXCEPT ![c] =
                   Answered(@, "ok", IF pending_data.available THEN "Some" ELSE "None")]
    /\ IF is_pending_tx(pending_data, input[c])
       THEN /\ outcome' = [outcome EXCEPT ![c] = Ok("Pending")]
            /\ pc' = [pc EXCEPT ![c] = "done"]
            /\ UNCHANGED task
       ELSE /\ SpawnDb(c)
            /\ UNCHANGED outcome
    /\ UNCHANGED <<env, input, db, db_tx, block_hash, db_status>>

\* --------------------------------------------- the spawn_blocking closure
\* Return that keeps the connection and the transaction on an error
Return_leak_on_error(c, r) ==
    /\ task' = [task EXCEPT ![c] = "finished"]
    /\ db_status' = [db_status EXCEPT ![c] = r]
    /\ db' = [db EXCEPT ![c] = IF r.kind = "err" THEN @ ELSE FALSE]
    /\ db_tx' = [db_tx EXCEPT ![c] = IF r.kind = "err" THEN @ ELSE FALSE]

\* Return that keeps the connection when no block was found, as a connection
\* owned by the function body rather than by the closure would be
Return_keeps_on_none(c, r) ==
    /\ task' = [task EXCEPT ![c] = "finished"]
    /\ db_status' = [db_status EXCEPT ![c] = r]
    /\ db' = [db EXCEPT ![c] = IF r.kind = "ok" /\ ~r.found THEN @ ELSE FALSE]
    /\ db_tx' = [db_tx EXCEPT ![c] = FALSE]

\* the closure returns r: db_tx and db go out of scope
Return(c, r) ==
    /\ task' = [task EXCEPT ![c] = "finished"]
    /\ db_status' = [db_status EXCEPT ![c] = r]
    /\ db' = [db EXCEPT ![c] = FALSE]
    /\ db_tx' = [db_tx EXCEPT ![c] = FALSE]

\* context.storage.connection().context("Opening database connection")?
OpenConnection(c) ==
    /\ task[c] = "open_conn"
    /\ \E ok \in BOOLEAN :
         /\ trace' = [trace EXCEPT ![c] =
              Append(@, Ev("storage.connection", input[c], IF ok THEN "ok" ELSE "err", ""))]
         /\ IF ok
            THEN /\ task' = [task EXCEPT ![c] = "begin_tx"]
                 /\ db' = [db EXCEPT ![c] = TRUE]
                 /\ UNCHANGED <<db_tx, db_status>>
            ELSE Return(c, DbErr(CtxConnection))
    /\ UNCHANGED <<env, pc, input, block_hash, outcome>>

\* db.transaction().context("Creating database transaction")?
BeginTransaction(c) ==
    /\ task[c] = "begin_tx"
    /\ \E ok \in BOOLEAN :
         /\ trace' = [trace EXCEPT ![c] =
              Append(@, Ev("db.transaction", input[c], IF ok THEN "ok" ELSE "err", ""))]
         /\ IF ok
            THEN /\ task' = [task EXCEPT ![c] = "fetch_block"]
                 /\ db_tx' = [db_tx EXCEPT ![c] = TRUE]
                 /\ UNCHANGED <<db, db_status>>
            ELSE Return(c, DbErr(CtxTransaction))
    /\ UNCHANGED <<env, pc, input, block_hash, outcome>>

\* FetchBlockHash without the let-else: the status query follows a None too
FetchBlockHash_no_let_else(c) ==
    /\ task[c] = "fetch_block"
    /\ \E ok \in BOOLEAN :
         LET found == transaction_block_hash(input[c]) IN
         /\ trace' = [trace EXCEPT ![c] =
              Append(@, Ev("transaction_block_hash", input[c],
                           IF ok THEN "ok" ELSE "err",
                           IF ok THEN ToString(found) ELSE ""))]
         /\ IF ~ok
            THEN /\ Return(c, DbErr(CtxBlockHash))
                 /\ UNCHANGED block_hash
            ELSE /\ task' = [task EXCEPT ![c] = "query_l1"]
                 /\ block_hash' = [block_hash EXCEPT ![c] = found]
                 /\ UNCHANGED <<db, db_tx, db_status>>
    /\ UNCHANGED <<env, pc, input, outcome>>

\* db_tx.transaction_block_hash(hash).context(..)?  and the let-else on it
FetchBlockHash(c) ==
    /\ task[c] = "fetch_block"
    /\ \E ok \in BOOLEAN :
         LET found == transaction_block_hash(input[c]) IN
         /\ trace' = [trace EXCEPT ![c] =
              Append(@, Ev("transaction_block_hash", input[c],
                           IF ok THEN "ok" ELSE "err",
                           IF ok THEN ToString(found) ELSE ""))]
         /\ IF ~ok
            THEN /\ Return(c, DbErr(CtxBlockHash))
                 /\ UNCHANGED block_hash
            ELSE IF found = NoBlock
            THEN /\ Return(c, DbOk(FALSE, FALSE))
                 /\ UNCHANGED block_hash
            ELSE /\ task' = [task EXCEPT ![c] = "query_l1"]
                 /\ block_hash' = [block_hash EXCEPT ![c] = found]
                 /\ UNCHANGED <<db, db_tx, db_status>>
    /\ UNCHANGED <<env, pc, input, outcome>>

\* db_tx.block_is_l1_accepted(block_hash.into()).context(..)?  and Ok(Some(..))
QueryBlockStatus(c) ==
    /\ task[c] = "query_l1"
    /\ \E ok \in BOOLEAN :
         LET tx_status == block_is_l1_accepted(block_hash[c]) IN
         /\ trace' = [trace EXCEPT ![c] =
              Append(@, Ev("block_is_l1_accepted", block_hash[c],
                           IF ok THEN "ok" ELSE "err",
                           IF ok THEN ToString(tx_status) ELSE ""))]
         /\ IF ok
            THEN Return(c, DbOk(TRUE, tx_status))
            ELSE Return(c, DbErr(CtxBlockStatus))
    /\ UNCHANGED <<env, pc, input, block_hash, outcome>>

\* the closure panics: the stack unwinds, db_tx and db are dropped, and the
\* JoinHandle will yield a JoinError
TaskPanic(c) ==
    /\ task[c] \in {"open_conn", "begin_tx", "fetch_block", "query_l1"}
    /\ task' = [task EXCEPT ![c] = "panicked"]
    /\ db' = [db EXCEPT ![c] = FALSE]
    /\ db_tx' = [db_tx EXCEPT ![c] = FALSE]
    /\ UNCHANGED <<env, pc, input, block_hash, db_status, outcome, trace>>

\* ------------------------------------------------ after the database task
\* DbOutcome with the two arms of the match exchanged
DbOutcome_swapped(joined, r) ==
    IF ~joined THEN Internal(CtxJoin)
    ELSE IF r.kind = "err" THEN Internal(r.ctx)
    ELSE IF r.found
    THEN (IF r.l1 THEN Ok("AcceptedOnL2") ELSE Ok("AcceptedOnL1"))
    ELSE NoOutcome

\* DbOutcome where Some(false) goes on to the gateway
DbOutcome_l2_falls_through(joined, r) ==
    IF ~joined THEN Internal(CtxJoin)
    ELSE IF r.kind = "err" THEN Internal(r.ctx)
    ELSE IF r.found /\ r.l1 THEN Ok("AcceptedOnL1")
    ELSE NoOutcome

\* DbOutcome where a database error goes on to the gateway
DbOutcome_err_falls_through(joined, r) ==
    IF ~joined THEN Internal(CtxJoin)
    ELSE IF r.kind = "err" THEN NoOutcome
    ELSE IF r.found
    THEN (IF r.l1 THEN Ok("AcceptedOnL1") ELSE Ok("AcceptedOnL2"))
    ELSE NoOutcome

\* DbOutcome where Some(false) is reported as Pending
DbOutcome_l2_as_pending(joined, r) ==
    IF ~joined THEN Internal(CtxJoin)
    ELSE IF r.kind = "err" THEN Internal(r.ctx)
    ELSE IF r.found
    THEN (IF r.l1 THEN Ok("AcceptedOnL1") ELSE Ok("Pending"))
    ELSE NoOutcome

\* DbOutcome where a failed join counts as None
DbOutcome_join_as_none(joined, r) ==
    IF ~joined THEN NoOutcome
    ELSE IF r.kind = "err" THEN Internal(r.ctx)
    ELSE IF r.found
    THEN (IF r.l1 THEN Ok("AcceptedOnL1") ELSE Ok("AcceptedOnL2"))
    ELSE NoOutcome

\* .await.context("Joining database task")??  and  match db_status { .. }:
\* the value the call returns here, NoOutcome when it goes on to the gateway
DbOutcome(joined, r) ==
    IF ~joined THEN Internal(CtxJoin)
    ELSE IF r.kind = "err" THEN Internal(r.ctx)
    ELSE IF r.found
    THEN (IF r.l1 THEN Ok("AcceptedOnL1") ELSE Ok("AcceptedOnL2"))
    ELSE NoOutcome

\* the database task is joined; on None the gateway request is sent
JoinDb(c) ==
    /\ pc[c] = "await_db"
    /\ task[c] \in {"finished", "panicked"}
    /\ LET res == DbOutcome(task[c] = "finished", db_status[c]) IN
       IF res = NoOutcome
       THEN /\ pc' = [pc EXCEPT ![c] = "await_gateway"]
            /\ trace' = [trace EXCEPT ![c] =
                 Append(@, Ev("sequencer.transaction", input[c], "inflight", ""))]
            /\ UNCHANGED outcome
       ELSE /\ pc' = [pc EXCEPT ![c] = "done"]
            /\ outcome' = [outcome EXCEPT ![c] = res]
            /\ UNCHANGED trace
    /\ UNCHANGED <<env, input, task, db, db_tx, block_hash, db_status>>

\* GatewayOutcome that turns a failed request into a status
GatewayOutcome_err_as_not_received(ok, status) ==
    IF ok THEN Ok(From(status)) ELSE Ok("NotReceived")

\* GatewayOutcome that treats NotReceived as a failure
GatewayOutcome_not_received_is_error(ok, status) ==
    IF ok /\ status # "Status::NotReceived" THEN Ok(From(status))
    ELSE Internal(CtxGateway)

\* GatewayOutcome with the context string of a database query
GatewayOutcome_db_context(ok, status) ==
    IF ok THEN Ok(From(status)) ELSE Internal(CtxBlockHash)

\* .context("Fetching transaction from gateway").map(|tx| tx.status.into())
\*  .map_err(GetGatewayTransactionError::Internal)
GatewayOutcome(ok, status) ==
    IF ok THEN Ok(From(status)) ELSE Internal(CtxGateway)

\* GatewayReplied that sends the request once more after a failure
GatewayReplied_retry(c) ==
    /\ pc[c] = "await_gateway"
    /\ \E ok \in BOOLEAN :
         IF ok \/ Len(trace[c]) > 6
         THEN /\ trace' = [trace EXCEPT ![c] =
                   Answered(@, IF ok THEN "ok" ELSE "err",
                               IF ok THEN GatewayStatusOf(input[c]) ELSE "")]
              /\ outcome' = [outcome EXCEPT ![c] =
                   GatewayOutcome(ok, GatewayStatusOf(input[c]))]
              /\ pc' = [pc EXCEPT ![c] = "done"]
         ELSE /\ trace' = [trace EXCEPT ![c] =
                   Append(Answered(@, "err", ""),
                          Ev("sequencer.transaction", input[c], "inflight", ""))]
              /\ UNCHANGED <<outcome, pc>>
    /\ UNCHANGED <<env, input, task, db, db_tx, block_hash, db_status>>

\* GatewayReplied that records a Pending answer in the pending data
GatewayReplied_populates(c) ==
    /\ pc[c] = "await_gateway"
    /\ \E ok \in BOOLEAN :
         /\ trace' = [trace EXCEPT ![c] =
              Answered(@, IF ok THEN "ok" ELSE "err",
                          IF ok THEN GatewayStatusOf(input[c]) ELSE "")]
         /\ outcome' = [outcome EXCEPT ![c] =
              GatewayOutcome(ok, GatewayStatusOf(input[c]))]
         /\ IF ok /\ GatewayStatusOf(input[c]) = "Status::Pending"
                  /\ pending_data.available
            THEN pending_data' =
                   [pending_data EXCEPT !.transactions = @ \cup {input[c]}]
            ELSE UNCHANGED pending_data
    /\ pc' = [pc EXCEPT ![c] = "done"]
    /\ UNCHANGED <<txBlock, l1Accepted, gateway, input, task, db, db_tx,
                   block_hash, db_status>>

\* context.sequencer.transaction(hash).await completes
GatewayReplied(c) ==
    /\ pc[c] = "await_gateway"
    /\ \E ok \in BOOLEAN :
         /\ trace' = [trace EXCEPT ![c] =
              Answered(@, IF ok THEN "ok" ELSE "err",
                          IF ok THEN GatewayStatusOf(input[c]) ELSE "")]
         /\ outcome' = [outcome EXCEPT ![c] =
              GatewayOutcome(ok, GatewayStatusOf(input[c]))]
    /\ pc' = [pc EXCEPT ![c] = "done"]
    /\ UNCHANGED <<env, input, task, db, db_tx, block_hash, db_status>>

\* Cancel that also stops the blocking task where it stands, without unwinding
Cancel_aborts_task(c) ==
    /\ pc[c] \in {"await_pending", "await_db", "await_gateway"}
    /\ pc' = [pc EXCEPT ![c] = "cancelled"]
    /\ task' = [task EXCEPT ![c] =
                  IF @ \in {"open_conn", "begin_tx", "fetch_block", "query_l1"}
                  THEN "panicked" ELSE @]
    /\ UNCHANGED <<env, input, db, db_tx, block_hash, db_status, outcome, trace>>

\* the caller drops the future at one of its three .await points; a closure
\* already handed to spawn_blocking keeps running
Cancel(c) ==
    /\ pc[c] \in {"await_pending", "await_db", "await_gateway"}
    /\ pc' = [pc EXCEPT ![c] = "cancelled"]
    /\ UNCHANGED <<env, input, task, db, db_tx, block_hash, db_status,
                   outcome, trace>>

Next ==
    \/ \E c \in Calls, t \in Tx : Call(c, t)
    \/ \E c \in Calls : PendingChecked(c)
    \/ \E c \in Calls : OpenConnection(c)
    \/ \E c \in Calls : BeginTransaction(c)
    \/ \E c \in Calls : FetchBlockHash(c)
    \/ \E c \in Calls : QueryBlockStatus(c)
    \/ \E c \in Calls : TaskPanic(c)
    \/ \E c \in Calls : JoinDb(c)
    \/ \E c \in Calls : GatewayReplied(c)
    \/ \E c \in Calls : Cancel(c)

Spec == Init /\ [][Next]_vars

\* every collaborator a call waits for eventually responds: the pending
\* snapshot, each step of the blocking task, the join and the gateway
Responsive(c) ==
    /\ WF_vars(PendingChecked(c))
    /\ WF_vars(OpenConnection(c))
    /\ WF_vars(BeginTransaction(c))
    /\ WF_vars(FetchBlockHash(c))
    /\ WF_vars(QueryBlockStatus(c))
    /\ WF_vars(JoinDb(c))
    /\ WF_vars(GatewayReplied(c))

FairSpec == Init /\ [][Next]_vars /\ \A c \in Calls : Responsive(c)

\* ------------------------------------------- concurrent calls for one hash
\* the two calls that run concurrently
PairCalls == {1, 2}

\* the database holds at most the hash the gateway knows; the other hashes
\* are the ones unknown to both
PairInit ==
    /\ pending_data \in PendingDataStates
    /\ txBlock \in [Tx -> Blocks \cup {NoBlock}]
    /\ \A t \in Tx \ GwKnown : txBlock[t] = NoBlock
    /\ l1Accepted \in SUBSET Blocks
    /\ gateway \in [GwKnown -> GatewayStatus]
    /\ pc = [c \in PairCalls |-> "idle"]
    /\ input = [c \in PairCalls |-> NoTx]
    /\ task = [c \in PairCalls |-> "none"]
    /\ db = [c \in PairCalls |-> FALSE]
    /\ db_tx = [c \in PairCalls |-> FALSE]
    /\ block_hash = [c \in PairCalls |-> NoBlock]
    /\ db_status = [c \in PairCalls |-> NoDbResult]
    /\ outcome = [c \in PairCalls |-> NoOutcome]
    /\ trace = [c \in PairCalls |-> <<>>]

\* a call is made with the hash the calls already made were given
CallSame(c, tx_hash) ==
    /\ \A d \in PairCalls : input[d] \in {NoTx, tx_hash}
    /\ Call(c, tx_hash)

PairNext ==
    \/ \E c \in PairCalls, t \in Tx : CallSame(c, t)
    \/ \E c \in PairCalls : PendingChecked(c)
    \/ \E c \in PairCalls : OpenConnection(c)
    \/ \E c \in PairCalls : BeginTransaction(c)
    \/ \E c \in PairCalls : FetchBlockHash(c)
    \/ \E c \in PairCalls : QueryBlockStatus(c)
    \/ \E c \in PairCalls : TaskPanic(c)
    \/ \E c \in PairCalls : JoinDb(c)
    \/ \E c \in PairCalls : GatewayReplied(c)
    \/ \E c \in PairCalls : Cancel(c)

PairSpec == PairInit /\ [][PairNext]_vars

\* ------------------------------------------------------------ properties
Returned(c) == pc[c] = "done"
Started(c) == input[c] # NoTx

Events(c) == { trace[c][i] : i \in 1..Len(trace[c]) }
EventsOf(c, op) == { e \in Events(c) : e.op = op }
LedgerOps ==
    { "storage.connection", "db.transaction", "transaction_block_hash",
      "block_is_l1_accepted" }
LedgerEvents(c) == { e \in Events(c) : e.op \in LedgerOps }
GatewayQueries(c) ==
    Cardinality({ i \in 1..Len(trace[c]) : trace[c][i].op = "sequencer.transaction" })

NoLedgerCall(c) == task[c] = "none" /\ LedgerEvents(c) = {}
NoGatewayCall(c) == GatewayQueries(c) = 0

\* what the backing state holds for a hash
InPendingSnapshot(t) ==
    pending_data.configured /\ pending_data.available /\ t \in pending_data.transactions
InLedger(t) == txBlock[t] # NoBlock
InL1Block(t) == InLedger(t) /\ txBlock[t] \in l1Accepted
InL2Block(t) == InLedger(t) /\ txBlock[t] \notin l1Accepted

\* what went wrong during a call
LedgerIoFailed(c) == \E e \in LedgerEvents(c) : e.state = "err"
LedgerStageFailed(c) == LedgerIoFailed(c) \/ task[c] = "panicked"
GatewayFailed(c) == \E e \in EventsOf(c, "sequencer.transaction") : e.state = "err"
GatewayReported(c, g) ==
    \E e \in EventsOf(c, "sequencer.transaction") : e.state = "ok" /\ e.val = g

\* the gateway status and the TransactionStatus of the same name
SameNamed ==
    { <<"Status::NotReceived", "NotReceived">>, <<"Status::Received", "Received">>,
      <<"Status::Pending", "Pending">>, <<"Status::Rejected", "Rejected">>,
      <<"Status::AcceptedOnL1", "AcceptedOnL1">>,
      <<"Status::AcceptedOnL2", "AcceptedOnL2">>,
      <<"Status::Reverted", "Reverted">>, <<"Status::Aborted", "Aborted">> }

TypeOK ==
    /\ pending_data \in PendingDataStates
    /\ txBlock \in [Tx -> Blocks \cup {NoBlock}]
    /\ l1Accepted \subseteq Blocks
    /\ gateway \in [GwKnown -> GatewayStatus]
    /\ pc \in [Calls -> {"idle", "await_pending", "await_db", "await_gateway",
                         "done", "cancelled"}]
    /\ input \in [Calls -> Tx \cup {NoTx}]
    /\ task \in [Calls -> {"none", "open_conn", "begin_tx", "fetch_block",
                           "query_l1", "finished", "panicked"}]
    /\ db \in [Calls -> BOOLEAN]
    /\ db_tx \in [Calls -> BOOLEAN]
    /\ block_hash \in [Calls -> Blocks \cup {NoBlock}]
    /\ \A c \in Calls :
         /\ outcome[c].kind \in {"none", "ok", "err"}
         /\ outcome[c].kind = "ok" => outcome[c].status \in TransactionStatus
         /\ (outcome[c].kind # "none") <=> Returned(c)

\* C1: a call for a hash that the pending snapshot contains opens no database
\* connection, runs no database query and sends no gateway request, and when
\* it returns it returns Ok(Pending), whatever the database and the gateway
\* hold for that hash.
C1_PendingShortCircuits ==
    \A c \in Calls :
        (Started(c) /\ InPendingSnapshot(input[c])) =>
            /\ NoLedgerCall(c)
            /\ NoGatewayCall(c)
            /\ pc[c] \in {"await_pending", "done", "cancelled"}
            /\ Returned(c) => outcome[c] = Ok("Pending")

C1_Witness ==
    \E c \in Calls :
        /\ Returned(c) /\ InPendingSnapshot(input[c])
        /\ InL1Block(input[c])
        /\ GatewayStatusOf(input[c]) = "Status::Rejected"
        /\ outcome[c] = Ok("Pending")

\* C2: a call for a hash that is not in the pending snapshot and whose block
\* in the database is L1 accepted never sends a gateway request, and when the
\* database stage completes without a failure it returns Ok(AcceptedOnL1),
\* whatever the gateway holds; the only other return is the internal error of
\* a failed database stage.
C2_L1AcceptedFromLedger ==
    \A c \in Calls :
        (Started(c) /\ ~InPendingSnapshot(input[c]) /\ InL1Block(input[c])) =>
            /\ NoGatewayCall(c)
            /\ Returned(c) =>
                 \/ outcome[c] = Ok("AcceptedOnL1")
                 \/ LedgerStageFailed(c) /\ outcome[c].kind = "err"
            /\ (Returned(c) /\ ~LedgerStageFailed(c)) =>
                 outcome[c] = Ok("AcceptedOnL1")

C2_Witness ==
    \E c \in Calls :
        /\ Returned(c) /\ ~InPendingSnapshot(input[c]) /\ InL1Block(input[c])
        /\ pending_data.available /\ pending_data.transactions # {}
        /\ GatewayStatusOf(input[c]) = "Status::AcceptedOnL2"
        /\ outcome[c] = Ok("AcceptedOnL1")

\* C3: a call for a hash that is not in the pending snapshot and whose block
\* in the database is not L1 accepted never sends a gateway request, and when
\* the database stage completes without a failure it returns
\* Ok(AcceptedOnL2), whatever the gateway holds.
C3_L2AcceptedFromLedger ==
    \A c \in Calls :
        (Started(c) /\ ~InPendingSnapshot(input[c]) /\ InL2Block(input[c])) =>
            /\ NoGatewayCall(c)
            /\ Returned(c) =>
                 \/ outcome[c] = Ok("AcceptedOnL2")
                 \/ LedgerStageFailed(c) /\ outcome[c].kind = "err"
            /\ (Returned(c) /\ ~LedgerStageFailed(c)) =>
                 outcome[c] = Ok("AcceptedOnL2")

C3_Witness ==
    \E c \in Calls :
        /\ Returned(c) /\ ~InPendingSnapshot(input[c]) /\ InL2Block(input[c])
        /\ pending_data.available /\ pending_data.transactions # {}
        /\ GatewayStatusOf(input[c]) = "Status::AcceptedOnL1"
        /\ outcome[c] = Ok("AcceptedOnL2")

\* C4: a call for a hash that is neither in the pending snapshot nor in the
\* database, and whose database stage and gateway request do not fail, has
\* sent exactly one gateway request for that hash when it returns, and
\* returns Ok of the TransactionStatus named like the status the gateway
\* holds.
C4_GatewayStatusMappedByName ==
    \A c \in Calls :
        ( /\ Returned(c) /\ ~InPendingSnapshot(input[c]) /\ ~InLedger(input[c])
          /\ ~LedgerStageFailed(c) /\ ~GatewayFailed(c) ) =>
            /\ GatewayQueries(c) = 1
            /\ \A e \in EventsOf(c, "sequencer.transaction") : e.arg = input[c]
            /\ outcome[c].kind = "ok"
            /\ <<GatewayStatusOf(input[c]), outcome[c].status>> \in SameNamed

C4_Witness ==
    \E c \in Calls :
        /\ Returned(c) /\ ~InPendingSnapshot(input[c]) /\ ~InLedger(input[c])
        /\ ~LedgerStageFailed(c) /\ ~GatewayFailed(c)
        /\ GatewayStatusOf(input[c]) = "Status::Aborted"
        /\ outcome[c] = Ok("Aborted")

\* C5: once opening the connection, starting the transaction, the block hash
\* lookup or the L1 acceptance query of a call has failed, the call never
\* sends a gateway request, and when it returns it returns an internal error,
\* never a status.
C5_LedgerFailureIsFatal ==
    \A c \in Calls :
        LedgerIoFailed(c) =>
            /\ NoGatewayCall(c)
            /\ pc[c] # "await_gateway"
            /\ Returned(c) => outcome[c].kind = "err"

C5_Witness ==
    \E c \in Calls :
        /\ Returned(c)
        /\ \E e \in EventsOf(c, "block_is_l1_accepted") : e.state = "err"
        /\ outcome[c] = Internal(CtxBlockStatus)
        /\ GatewayStatusOf(input[c]) = "Status::Rejected"

\* the result of the database and gateway stages taken alone: decided by what
\* the database holds for the hash, what the gateway holds for it, and which
\* of their operations failed during the call
LedgerGatewayResult(c) ==
    IF LedgerStageFailed(c) THEN [kind |-> "err", status |-> ""]
    ELSE IF InL1Block(input[c]) THEN [kind |-> "ok", status |-> "AcceptedOnL1"]
    ELSE IF InL2Block(input[c]) THEN [kind |-> "ok", status |-> "AcceptedOnL2"]
    ELSE IF GatewayFailed(c) THEN [kind |-> "err", status |-> ""]
    ELSE [kind |-> "ok",
          status |-> CHOOSE st \in TransactionStatus :
                        <<GatewayStatusOf(input[c]), st>> \in SameNamed]

\* C6: when no pending data is configured, or it is configured but yields no
\* snapshot, a call that has got past the pending check has spawned the
\* database task, and when it returns, its result (a status or an internal
\* error) is the result of the database and gateway stages alone.
C6_PendingUnavailableFallsThrough ==
    \A c \in Calls :
        (Started(c) /\ ~(pending_data.configured /\ pending_data.available)) =>
            /\ pc[c] \in {"await_db", "await_gateway", "done"} => task[c] # "none"
            /\ Returned(c) =>
                 [kind |-> outcome[c].kind, status |-> outcome[c].status]
                     = LedgerGatewayResult(c)

C6_Witness ==
    \E c \in Calls :
        /\ Returned(c)
        /\ pending_data.configured /\ ~pending_data.available
        /\ InL2Block(input[c])
        /\ outcome[c] = Ok("AcceptedOnL2")

\* C7: a call sends at most one gateway request, and once that request has
\* failed the call has returned the internal error of the gateway stage and
\* the failed request is the last collaborator call it made.
C7_GatewayFailureIsFinal ==
    \A c \in Calls :
        /\ GatewayQueries(c) <= 1
        /\ GatewayFailed(c) =>
             /\ Returned(c)
             /\ outcome[c] = Internal(CtxGateway)
             /\ trace[c][Len(trace[c])].op = "sequencer.transaction"
             /\ trace[c][Len(trace[c])].state = "err"

C7_Witness ==
    \E c \in Calls :
        /\ Returned(c) /\ GatewayFailed(c)
        /\ GatewayStatusOf(input[c]) = "Status::Rejected"
        /\ outcome[c].kind = "err"

\* C8 as stated: a call for a hash that the database holds in a block never
\* returns Pending, whatever the pending snapshot lists.
C8_LedgerHashNeverPending ==
    \A c \in Calls :
        (Returned(c) /\ InLedger(input[c])) => outcome[c] # Ok("Pending")

\* C8 (amended): a call for a hash that the database holds in a block and
\* that the pending snapshot does not list never returns Pending, whatever
\* the gateway holds for it; a call for a hash that the pending snapshot
\* still lists returns Pending even though the database holds it in a block.
C8_LedgerHashNotPendingUnlessListed ==
    \A c \in Calls :
        (Returned(c) /\ InLedger(input[c])) =>
            /\ ~InPendingSnapshot(input[c]) => outcome[c] # Ok("Pending")
            /\ InPendingSnapshot(input[c]) => outcome[c] = Ok("Pending")

C8_Witness ==
    \E c \in Calls :
        /\ Returned(c) /\ InLedger(input[c]) /\ ~InPendingSnapshot(input[c])
        /\ pending_data.available
        /\ GatewayStatusOf(input[c]) = "Status::Pending"
        /\ outcome[c] = Ok("AcceptedOnL2")

\* C9: every status a call returns was produced by a source during the call:
\* Pending only if the snapshot it fetched lists the hash or the gateway
\* answered Pending; AcceptedOnL1 (AcceptedOnL2) only if its L1 acceptance
\* query answered true (false) or the gateway answered that status; each of
\* the other five only if the gateway answered exactly that status.
C9_NoInventedStatus ==
    \A c \in Calls :
        (Returned(c) /\ outcome[c].kind = "ok") =>
            LET st == outcome[c].status
                fromPending ==
                    /\ \E e \in EventsOf(c, "pending.block") :
                          e.state = "ok" /\ e.val = "Some" /\ e.arg = input[c]
                    /\ InPendingSnapshot(input[c])
                fromLedger(b) ==
                    \E e \in EventsOf(c, "block_is_l1_accepted") :
                        /\ e.state = "ok" /\ e.val = ToString(b)
                        /\ e.arg = txBlock[input[c]]
                fromGateway ==
                    \E g \in GatewayStatus :
                        <<g, st>> \in SameNamed /\ GatewayReported(c, g)
            IN  CASE st = "Pending" -> fromPending \/ fromGateway
                  [] st = "AcceptedOnL1" -> fromLedger(TRUE) \/ fromGateway
                  [] st = "AcceptedOnL2" -> fromLedger(FALSE) \/ fromGateway
                  [] OTHER -> fromGateway

C9_Witness ==
    \E c \in Calls :
        /\ Returned(c)
        /\ outcome[c] = Ok("Reverted")
        /\ GatewayReported(c, "Status::Reverted")

\* C10: a call returns an internal error only if its database stage (an
\* operation of the closure, or the closure itself) or its gateway request
\* failed; in particular a call for a hash that is in neither the pending
\* snapshot nor the database, with no such failure and a gateway answer of
\* NotReceived, returns Ok(NotReceived).
C10_ErrorsOnlyFromFailures ==
    \A c \in Calls :
        Returned(c) =>
            /\ outcome[c].kind = "err" => (LedgerStageFailed(c) \/ GatewayFailed(c))
            /\ ( /\ ~InPendingSnapshot(input[c]) /\ ~InLedger(input[c])
                 /\ GatewayReported(c, "Status::NotReceived") ) =>
                   outcome[c] = Ok("NotReceived")

C10_Witness ==
    \E c \in Calls :
        /\ Returned(c)
        /\ ~pending_data.configured /\ ~InLedger(input[c])
        /\ GatewayReported(c, "Status::NotReceived")
        /\ outcome[c] = Ok("NotReceived")

\* a collaborator call of this call failed, or its database task panicked
CollaboratorFailed(c) == LedgerStageFailed(c) \/ GatewayFailed(c)

\* C11 as stated: two calls for the same hash that have both returned, under
\* any interleaving of their steps over the same backing state, returned the
\* same outcome: the same status, or an internal error both.
C11_SameOutcome ==
    \A c, d \in PairCalls :
        (Returned(c) /\ Returned(d) /\ input[c] = input[d]) =>
            /\ outcome[c].kind = outcome[d].kind
            /\ outcome[c].status = outcome[d].status

\* C11 (amended): two calls for the same hash that have both returned a
\* status, under any interleaving of their steps over the same backing
\* state, returned the same status; two calls none of whose collaborator
\* calls failed returned the same outcome.  One call may return an internal
\* error while the other returns a status.
C11_SameStatus ==
    \A c, d \in PairCalls :
        (Returned(c) /\ Returned(d) /\ input[c] = input[d]) =>
            /\ (outcome[c].kind = "ok" /\ outcome[d].kind = "ok") =>
                 outcome[c].status = outcome[d].status
            /\ (~CollaboratorFailed(c) /\ ~CollaboratorFailed(d)) =>
                 outcome[c] = outcome[d]

C11_Witness ==
    \E c, d \in PairCalls :
        /\ c # d /\ input[c] = input[d]
        /\ Returned(c) /\ pc[d] = "await_gateway"
        /\ outcome[c] = Ok("Rejected")
        /\ GatewayStatusOf(input[d]) = "Status::Rejected"

\* a returned call is over: nothing of it changes any more
Frozen(c) ==
    /\ pc'[c] = pc[c] /\ outcome'[c] = outcome[c] /\ trace'[c] = trace[c]
    /\ task'[c] = task[c] /\ db'[c] = db[c] /\ db_tx'[c] = db_tx[c]

\* exactly one of a status and an internal error
OneOutcome(o) ==
    \/ o.kind = "ok" /\ o.status \in TransactionStatus /\ o.ctx = ""
    \/ o.kind = "err" /\ o.status = "" /\ o.ctx # ""

\* C12: with responsive collaborators every call that was made eventually
\* returns or is cancelled; a value is produced exactly when the call
\* returns, it is exactly one of a status and an internal error, and after
\* it nothing of the call changes: no second value, no further stage.
C12_TerminatesWithOneOutcome ==
    /\ \A c \in Calls : Started(c) ~> (Returned(c) \/ pc[c] = "cancelled")
    /\ [](\A c \in Calls :
            /\ (outcome[c] # NoOutcome) <=> Returned(c)
            /\ Returned(c) => OneOutcome(outcome[c]))
    /\ [][\A c \in Calls : Returned(c) => Frozen(c)]_vars

C12_Witness ==
    \E c \in Calls :
        /\ Returned(c)
        /\ Len(trace[c]) = 5
        /\ outcome[c] = Ok("Received")

\* the stage a collaborator call belongs to
StageOf(op) ==
    IF op = "pending.block" THEN 1
    ELSE IF op \in LedgerOps THEN 2
    ELSE 3

\* C13: the collaborator calls of one call are made in the order pending,
\* database, gateway.  The database task exists only once the pending check,
\* if there is one, has been answered without a match; a gateway request
\* exists only once the database task has finished without a failure and its
\* lookup found no block; while the pending check is awaited nothing else of
\* the call has started.
C13_StagesInOrder ==
    \A c \in Calls :
        /\ \A i, j \in 1..Len(trace[c]) :
              i < j => StageOf(trace[c][i].op) <= StageOf(trace[c][j].op)
        /\ pc[c] = "await_pending" => (NoLedgerCall(c) /\ NoGatewayCall(c))
        /\ task[c] # "none" =>
              /\ ~InPendingSnapshot(input[c])
              /\ \A e \in EventsOf(c, "pending.block") : e.state = "ok"
              /\ pending_data.configured => EventsOf(c, "pending.block") # {}
        /\ ~NoGatewayCall(c) =>
              /\ task[c] = "finished" /\ ~db[c] /\ ~db_tx[c]
              /\ ~LedgerStageFailed(c)
              /\ \E e \in EventsOf(c, "transaction_block_hash") :
                    e.state = "ok" /\ e.val = ToString(NoBlock)
              /\ EventsOf(c, "block_is_l1_accepted") = {}
              /\ pc[c] \in {"await_gateway", "done", "cancelled"}
        /\ (Returned(c) /\ LedgerEvents(c) # {} /\ NoGatewayCall(c)) =>
              (outcome[c] \in {Ok("AcceptedOnL1"), Ok("AcceptedOnL2")}
                  \/ outcome[c].kind = "err")

C13_Witness ==
    \E c \in Calls :
        /\ Returned(c)
        /\ [i \in 1..Len(trace[c]) |-> trace[c][i].op] =
              <<"pending.block", "storage.connection", "db.transaction",
                "transaction_block_hash", "sequencer.transaction">>
        /\ outcome[c] = Ok("Rejected")

\* C14: each of two concurrent calls opens at most one database connection
\* and at most one transaction, and every database query it runs follows a
\* connection and a transaction it opened itself, also while the other call
\* holds a connection; the connection is held exactly while its
\* blocking task is between opening it and finishing, so it is released when
\* the task finishes with a block found, with no block, or with an I/O error,
\* and a call that has returned holds neither connection nor transaction.
C14_ConnectionScopedToCall ==
    \A c \in PairCalls :
        /\ Cardinality(EventsOf(c, "storage.connection")) <= 1
        /\ Cardinality(EventsOf(c, "db.transaction")) <= 1
        /\ (EventsOf(c, "transaction_block_hash") # {}
              \/ EventsOf(c, "block_is_l1_accepted") # {}) =>
             /\ \E e \in EventsOf(c, "storage.connection") : e.state = "ok"
             /\ \E e \in EventsOf(c, "db.transaction") : e.state = "ok"
        /\ db[c] <=> task[c] \in {"begin_tx", "fetch_block", "query_l1"}
        /\ db_tx[c] <=> task[c] \in {"fetch_block", "query_l1"}
        /\ task[c] = "finished" => (~db[c] /\ ~db_tx[c])
        /\ Returned(c) => (~db[c] /\ ~db_tx[c])

C14_Witness ==
    \E c, d \in PairCalls :
        /\ c # d /\ db[d] /\ db_tx[d]
        /\ Returned(c)
        /\ outcome[c] = Internal(CtxBlockHash)
        /\ \E e \in EventsOf(c, "db.transaction") : e.state = "ok"
        /\ ~db[c] /\ ~db_tx[c]

\* C15: no step of either of two concurrent calls, successful or failing,
\* changes the pending data, the database contents or the gateway's records.
C15_SourcesUnchanged ==
    [][ /\ pending_data' = pending_data
        /\ txBlock' = txBlock
        /\ l1Accepted' = l1Accepted
        /\ gateway' = gateway ]_vars

C15_Witness ==
    \E c, d \in PairCalls :
        /\ c # d /\ Returned(d) /\ outcome[d].kind = "err"
        /\ Returned(c)
        /\ GatewayReported(c, "Status::Pending")
        /\ outcome[c] = Ok("Pending")
        /\ pending_data.available
        /\ input[c] \notin pending_data.transactions

\* C16: a cancelled call never has an outcome and stays cancelled; after the
\* cancellation it makes no pending or gateway call and spawns no database
\* task (only a database task spawned before goes on); and a connection or
\* transaction held by its database task is eventually released.
C16_CancellationDiscards ==
    /\ [](\A c \in Calls : pc[c] = "cancelled" => outcome[c] = NoOutcome)
    /\ [][\A c \in Calls : pc[c] = "cancelled" =>
            /\ pc'[c] = "cancelled"
            /\ outcome'[c] = NoOutcome
            /\ task[c] = "none" => task'[c] = "none"
            /\ \A i \in 1..Len(trace'[c]) :
                  i > Len(trace[c]) => trace'[c][i].op \in LedgerOps
            /\ \A i \in 1..Len(trace[c]) :
                  trace[c][i].op \notin LedgerOps => trace'[c][i] = trace[c][i]
       ]_vars
    /\ \A c \in Calls :
          (pc[c] = "cancelled" /\ (db[c] \/ db_tx[c])) ~> (~db[c] /\ ~db_tx[c])

C16_Witness ==
    \E c \in Calls :
        /\ pc[c] = "cancelled"
        /\ db[c] /\ db_tx[c]
        /\ task[c] = "query_l1"

\* the contexts of the database stage
LedgerContexts ==
    { CtxConnection, CtxTransaction, CtxBlockHash, CtxBlockStatus, CtxJoin }

\* the context that names a failed database operation
ContextOfOp(op) ==
    CASE op = "storage.connection" -> CtxConnection
      [] op = "db.transaction" -> CtxTransaction
      [] op = "transaction_block_hash" -> CtxBlockHash
      [] op = "block_is_l1_accepted" -> CtxBlockStatus

\* C17: the internal error a call returns carries the context of the
\* operation that failed: after a failed database operation the context of
\* that operation, after a panic of the database task the join context,
\* after a failed gateway request the gateway context; the database
\* contexts differ from the gateway context, so the context tells which
\* stage failed.
C17_ErrorContextNamesStage ==
    /\ CtxGateway \notin LedgerContexts
    /\ Cardinality(LedgerContexts) = 5
    /\ \A c \in Calls :
          (Returned(c) /\ outcome[c].kind = "err") =>
             /\ \A e \in LedgerEvents(c) :
                   e.state = "err" => outcome[c].ctx = ContextOfOp(e.op)
             /\ task[c] = "panicked" => outcome[c].ctx = CtxJoin
             /\ GatewayFailed(c) => outcome[c].ctx = CtxGateway
             /\ outcome[c].ctx \in LedgerContexts <=> LedgerStageFailed(c)
             /\ outcome[c].ctx = CtxGateway <=> GatewayFailed(c)

C17_Witness ==
    \E c \in Calls :
        /\ Returned(c)
        /\ outcome[c] = Internal(CtxTransaction)
        /\ \E e \in EventsOf(c, "db.transaction") : e.state = "err"

\* the database operations of a call, in the order it made them
LedgerTrace(c) == SelectSeq(trace[c], LAMBDA e : e.op \in LedgerOps)

\* the operations of one connection/transaction scope, in order
ScopeOrder ==
    <<"storage.connection", "db.transaction", "transaction_block_hash",
      "block_is_l1_accepted">>

\* C18: the database operations of a call are a prefix of: open the
\* connection, start the transaction, look up the block hash, query the
\* block's L1 acceptance, each made at most once and only after the one
\* before succeeded.  The lookup is made exactly once when the stage yields a
\* result; the L1 acceptance query is made only after the lookup returned a
\* block, for that block, and never after the lookup returned no block or
\* failed.
C18_QueriesInOneScope ==
    \A c \in Calls :
        LET lt == LedgerTrace(c) IN
        /\ Len(lt) <= 4
        /\ \A i \in 1..Len(lt) :
              /\ lt[i].op = ScopeOrder[i]
              /\ i < Len(lt) => lt[i].state = "ok"
        /\ (task[c] = "finished" /\ db_status[c].kind = "ok") =>
              Cardinality({ i \in 1..Len(lt) : lt[i].op = "transaction_block_hash" }) = 1
        /\ Len(lt) = 4 =>
              /\ lt[3].val # ToString(NoBlock)
              /\ lt[3].val = ToString(lt[4].arg)
              /\ lt[4].arg = txBlock[input[c]]
              /\ lt[3].arg = input[c]
        /\ (Len(lt) >= 3 /\ task[c] \in {"finished", "panicked"}
              /\ (lt[3].state = "err" \/ lt[3].val = ToString(NoBlock))) =>
              Len(lt) = 3

C18_Witness ==
    \E c \in Calls :
        /\ Returned(c)
        /\ Len(LedgerTrace(c)) = 4
        /\ LedgerTrace(c)[4].state = "ok"
        /\ LedgerTrace(c)[4].arg = 1
        /\ outcome[c] = Ok("AcceptedOnL1")

\* C19: a call that has sent its gateway request holds no database
\* connection and no database transaction, while it awaits the answer and
\* afterwards: both were released before the request was sent.
C19_NoConnectionAcrossGateway ==
    \A c \in Calls :
        (pc[c] = "await_gateway" \/ ~NoGatewayCall(c)) =>
            /\ ~db[c] /\ ~db_tx[c]
            /\ task[c] = "finished"

C19_Witness ==
    \E c \in Calls :
        /\ pc[c] = "await_gateway"
        /\ \E e \in EventsOf(c, "storage.connection") : e.state = "ok"
        /\ \E e \in EventsOf(c, "sequencer.transaction") : e.state = "inflight"
        /\ ~db[c] /\ ~db_tx[c]

\* C20: once the blocking database task of a call has panicked, so that
\* joining it fails, the call never sends a gateway request, and when it
\* returns it returns an internal error, whatever the database and the
\* gateway hold for the hash.
C20_JoinFailureIsFatal ==
    \A c \in Calls :
        task[c] = "panicked" =>
            /\ NoGatewayCall(c)
            /\ pc[c] \in {"await_db", "done", "cancelled"}
            /\ Returned(c) => outcome[c].kind = "err"

C20_Witness ==
    \E c \in Calls :
        /\ Returned(c)
        /\ task[c] = "panicked"
        /\ ~InLedger(input[c])
        /\ LedgerEvents(c) = {}
        /\ outcome[c] = Internal(CtxJoin)
====
